---- MODULE Spec2Model ----
(***************************************************************************)
(* Model of DuplicateService (server/src/services/duplicate.service.ts):   *)
(* the scan-all handler handleQueueSearchDuplicates and the scan-one       *)
(* handler handleSearchDuplicates with its helper updateDuplicates.        *)
(* Every await of the handlers is a separate step of the model.            *)
(***************************************************************************)
EXTENDS Integers, Sequences, FiniteSets, TLC

\* ------------------------------------------------------------------ bounds
\* longest asset enumeration streamForSearchDuplicates yields
MaxStream == 4
\* largest value tried for JOBS_ASSET_PAGINATION_SIZE
MaxPageSize == 3

\* number of assets in the store
NumAssets == 3
\* duplicate group ids present before the first job runs
MaxInitGroup == 2
\* number of scan-one job deliveries in one behaviour
MaxRuns == 2
\* number of attribute changes made by the rest of the system
MaxAssetChanges == 1

StreamIds == 1..MaxStream
Assets == 1..NumAssets
\* an id that designates no asset row
MissingId == NumAssets + 1
JobIds == Assets \cup {MissingId}
\* `null` of a nullable column
NULL == 0
\* AssetVisibility
Visibilities == {"archive", "timeline", "hidden", "locked"}
\* the users owning assets
OwnerIds == {1, 2}
\* the job runner executing scan-one jobs one after another
SeqWorkers == {"w1"}
\* two job runners executing scan-one jobs concurrently
Workers == {"w1", "w2"}

VARIABLES
    enabled,     \* isDuplicateDetectionEnabled(machineLearning) in the stored config
    pageSize,    \* JOBS_ASSET_PAGINATION_SIZE
    stream,      \* what streamForSearchDuplicates has still to yield
    enumerated,  \* asset ids the for-await loop has received so far
    jobs,        \* the local array `jobs` of handleQueueSearchDuplicates
    submitted,   \* arguments of the jobRepository.queueAll calls, in call order
    qpc,         \* position of handleQueueSearchDuplicates
    qresult,     \* JobStatus returned by handleQueueSearchDuplicates
    assets,      \* the asset table: id -> row (stackId, visibility, embedding, ownerId, duplicateId)
    detectedAt,  \* asset_job_status.duplicatesDetectedAt per asset (0: never)
    uuids,       \* number of ids cryptoRepository.randomUUID has produced
    runs,        \* number of scan-one jobs delivered so far (also the clock of `new Date()`)
    changes,     \* number of attribute changes made so far by the rest of the system
    pc,          \* per job runner: position in handleSearchDuplicates
    jobId,       \* per job runner: the `id` of the job
    asset,       \* per job runner: the local `asset`
    duplicateAssets, \* per job runner: the local `duplicateAssets`
    result,      \* per job runner: JobStatus returned, "ERROR" when a call raised
    writes,      \* per job runner: store write calls issued by the current execution
    before,      \* per job runner: duplicateId of every asset when the job started
    prev,        \* per job runner: the previous execution (id, result, candidate ids)
    raisedAt,    \* per job runner: the call that raised when result is "ERROR"
    initial      \* duplicateId of every asset before the first job was delivered

qvars == <<pageSize, stream, enumerated, jobs, submitted, qpc, qresult>>

store == <<assets, detectedAt, uuids>>

locals == <<pc, jobId, asset, duplicateAssets, result, writes, before, prev, raisedAt>>

svars == <<assets, detectedAt, uuids, runs, changes, pc, jobId, asset, duplicateAssets,
           result, writes, before, prev, raisedAt>>

vars == <<enabled, pageSize, stream, enumerated, jobs, submitted, qpc, qresult,
          assets, detectedAt, uuids, runs, changes, pc, jobId, asset, duplicateAssets,
          result, writes, before, prev, raisedAt, initial>>

\* ------------------------------------------------------------- helpers
RECURSIVE Flatten(_)
Flatten(ss) == IF ss = <<>> THEN <<>> ELSE Head(ss) \o Flatten(Tail(ss))

Range(s) == {s[i] : i \in 1..Len(s)}

Injective(s) == \A i, j \in 1..Len(s) : i # j => s[i] # s[j]

RECURSIVE SeqsUpTo(_, _)
SeqsUpTo(S, n) ==
    IF n = 0 THEN {<<>>}
    ELSE LET shorter == SeqsUpTo(S, n - 1)
         IN  shorter \cup {Append(s, x) : s \in shorter, x \in S}

DistinctSeqs(S, n) == {s \in SeqsUpTo(S, n) : Injective(s)}

CeilDiv(n, k) == (n + k - 1) \div k

\* ------------------------------------------------------- the asset store
PlainRow == [stackId |-> NULL, visibility |-> "timeline", embedding |-> TRUE, ownerId |-> 1]

\* the rows the rest of the system can leave an asset in
Rows == [stackId : {NULL, 1}, visibility : Visibilities, embedding : BOOLEAN, ownerId : {1}]

\* what getForSearchDuplicatesJob yields for an id without a row
Undefined == [id |-> NULL, stackId |-> NULL, visibility |-> "timeline", embedding |-> FALSE,
              ownerId |-> NULL, duplicateId |-> NULL]

NoJob == [id |-> NULL, result |-> "NONE", candidates |-> <<>>]

\* duplicateId of every asset
DuplicateIdOf == [a \in Assets |-> assets[a].duplicateId]

\* members of duplicate group g
Members(g) == {a \in Assets : assets[a].duplicateId = g}

\* assetJobRepository.getForSearchDuplicatesJob(id)
GetForSearchDuplicatesJob(id) ==
    IF id \in Assets
    THEN [id |-> id, stackId |-> assets[id].stackId, visibility |-> assets[id].visibility,
          embedding |-> assets[id].embedding, ownerId |-> assets[id].ownerId,
          duplicateId |-> assets[id].duplicateId]
    ELSE Undefined

\* duplicateRepository.search: some candidates other than the asset itself, owned by one of
\* userIds, each with the duplicateId it has when the query runs
SearchResults(assetId, userIds) ==
    {[i \in 1..Len(s) |-> [assetId |-> s[i], duplicateId |-> assets[s[i]].duplicateId]] :
        s \in DistinctSeqs({c \in Assets : c # assetId /\ assets[c].ownerId \in userIds},
                           NumAssets - 1)}

\* duplicateRepository.merge: every asset named in assetIds or currently in one of the
\* source groups gets the target id, in one atomic statement
MergedAssets(targetId, assetIds, sourceIds) ==
    [a \in Assets |->
        IF a \in Range(assetIds) \/ (assets[a].duplicateId # NULL /\ assets[a].duplicateId \in Range(sourceIds))
        THEN [assets[a] EXCEPT !.duplicateId = targetId]
        ELSE assets[a]]

\* assetRepository.update({ id, duplicateId: null })
ClearedAssets(id) == [assets EXCEPT ![id].duplicateId = NULL]

\* assetRepository.upsertJobStatus(...assetIds.map(...duplicatesDetectedAt))
StampedAt(assetIds, now) ==
    [a \in Assets |-> IF a \in Range(assetIds) THEN now ELSE detectedAt[a]]

\* cryptoRepository.randomUUID(): an id no group has had
RandomUUID == MaxInitGroup + uuids + 1

MergeCall(targetId, assetIds, sourceIds) ==
    [op |-> "merge", targetId |-> targetId, assetIds |-> assetIds, sourceIds |-> sourceIds]

UpdateCall(id) ==
    [op |-> "update", targetId |-> NULL, assetIds |-> <<id>>, sourceIds |-> <<>>]

UpsertJobStatusCall(assetIds) ==
    [op |-> "upsertJobStatus", targetId |-> NULL, assetIds |-> assetIds, sourceIds |-> <<>>]

\* ------------------------------------------------------ updateDuplicates
RECURSIVE Dedup(_)
\* `[...new Set(ids)]`: first occurrences, in order
Dedup(s) ==
    IF s = <<>> THEN <<>>
    ELSE LET front == Dedup(SubSeq(s, 1, Len(s) - 1))
             last == s[Len(s)]
         IN  IF last \in Range(front) THEN front ELSE Append(front, last)

\* the filter on `!!asset.duplicateId` and the map to duplicateId
NonNullIds(dups) ==
    LET keep == SelectSeq(dups, LAMBDA d : d.duplicateId # NULL)
    IN  [i \in 1..Len(keep) |-> keep[i].duplicateId]

\* the array `duplicateIds` as first built
DuplicateIds(dups) == Dedup(NonNullIds(dups))

\* variant: a new id on every call
TargetAlwaysFresh(a, dups, uuid) == uuid

\* variant: `duplicateIds.shift() ?? asset.duplicateId ?? randomUUID()`
TargetPrefersCandidates(a, dups, uuid) ==
    IF DuplicateIds(dups) # <<>> THEN Head(DuplicateIds(dups))
    ELSE IF a.duplicateId # NULL THEN a.duplicateId
    ELSE uuid

\* variant: `asset.duplicateId ?? duplicateIds.pop() ?? randomUUID()`
TargetTakesLastGroup(a, dups, uuid) ==
    IF a.duplicateId # NULL THEN a.duplicateId
    ELSE IF DuplicateIds(dups) # <<>> THEN DuplicateIds(dups)[Len(DuplicateIds(dups))]
    ELSE uuid

\* `asset.duplicateId ?? duplicateIds.shift() ?? this.cryptoRepository.randomUUID()`
TargetDuplicateId(a, dups, uuid) ==
    IF a.duplicateId # NULL THEN a.duplicateId
    ELSE IF DuplicateIds(dups) # <<>> THEN Head(DuplicateIds(dups))
    ELSE uuid

\* `duplicateIds` when it is passed as sourceIds: shift() ran only if the asset had no id
SourceIds(a, dups) ==
    IF a.duplicateId = NULL /\ DuplicateIds(dups) # <<>>
    THEN Tail(DuplicateIds(dups))
    ELSE DuplicateIds(dups)

\* whether randomUUID() is evaluated
NeedsUUID(a, dups) == a.duplicateId = NULL /\ DuplicateIds(dups) = <<>>

\* variant: `assetIdsToUpdate.push(asset.id)` left out
AssetIdsWithoutScanned(a, dups, targetId) ==
    LET moved == SelectSeq(dups, LAMBDA d : d.duplicateId # targetId)
    IN  [i \in 1..Len(moved) |-> moved[i].assetId]

\* `assetIdsToUpdate`: candidates whose duplicateId is not the target, then the asset
AssetIdsToUpdate(a, dups, targetId) ==
    LET moved == SelectSeq(dups, LAMBDA d : d.duplicateId # targetId)
    IN  Append([i \in 1..Len(moved) |-> moved[i].assetId], a.id)

\* ------------------------------------------------ handleSearchDuplicates
\* variant: the `!asset.embedding` check left out
EligibilityWithoutEmbeddingCheck(a) ==
    IF a.id = NULL THEN "FAILED"
    ELSE IF a.stackId # NULL THEN "SKIPPED"
    ELSE IF a.visibility = "hidden" THEN "SKIPPED"
    ELSE IF a.visibility = "locked" THEN "SKIPPED"
    ELSE "OK"

\* variant: the LOCKED check left out
EligibilityWithoutLockedCheck(a) ==
    IF a.id = NULL THEN "FAILED"
    ELSE IF a.stackId # NULL THEN "SKIPPED"
    ELSE IF a.visibility = "hidden" THEN "SKIPPED"
    ELSE IF ~a.embedding THEN "FAILED"
    ELSE "OK"

\* the checks between the load and the search: what the handler returns, or "OK"
Eligibility(a) ==
    IF a.id = NULL THEN "FAILED"
    ELSE IF a.stackId # NULL THEN "SKIPPED"
    ELSE IF a.visibility = "hidden" THEN "SKIPPED"
    ELSE IF a.visibility = "locked" THEN "SKIPPED"
    ELSE IF ~a.embedding THEN "FAILED"
    ELSE "OK"

\* variant: the `else if (asset.duplicateId)` branch left out
AfterSearchNeverClears(a, dups) ==
    IF Len(dups) > 0 THEN "merge" ELSE "stamp"

\* the branch taken once the search has returned
AfterSearch(a, dups) ==
    IF Len(dups) > 0 THEN "merge"
    ELSE IF a.duplicateId # NULL THEN "update"
    ELSE "stamp"

\* no scan-one job has been delivered
IdleStore ==
    /\ assets = [a \in Assets |-> [stackId |-> NULL, visibility |-> "timeline",
                                   embedding |-> TRUE, ownerId |-> 1, duplicateId |-> NULL]]
    /\ detectedAt = [a \in Assets |-> 0]
    /\ uuids = 0
    /\ runs = 0
    /\ changes = 0
    /\ pc = [w \in Workers |-> "idle"]
    /\ jobId = [w \in Workers |-> NULL]
    /\ asset = [w \in Workers |-> Undefined]
    /\ duplicateAssets = [w \in Workers |-> <<>>]
    /\ result = [w \in Workers |-> "NONE"]
    /\ writes = [w \in Workers |-> <<>>]
    /\ before = [w \in Workers |-> [a \in Assets |-> NULL]]
    /\ prev = [w \in Workers |-> NoJob]
    /\ raisedAt = [w \in Workers |-> "none"]
    /\ initial = DuplicateIdOf

Init ==
    /\ enabled \in BOOLEAN
    /\ pageSize = 1
    /\ stream = <<>>
    /\ enumerated = <<>>
    /\ jobs = <<>>
    /\ submitted = <<>>
    /\ qpc = "idle"
    /\ qresult = "NONE"
    /\ \E d \in [Assets -> 0..MaxInitGroup] :
          assets = [a \in Assets |-> [stackId |-> NULL, visibility |-> "timeline",
                                      embedding |-> TRUE, ownerId |-> 1, duplicateId |-> d[a]]]
    /\ detectedAt = [a \in Assets |-> 0]
    /\ uuids = 0
    /\ runs = 0
    /\ changes = 0
    /\ pc = [w \in Workers |-> "idle"]
    /\ jobId = [w \in Workers |-> NULL]
    /\ asset = [w \in Workers |-> Undefined]
    /\ duplicateAssets = [w \in Workers |-> <<>>]
    /\ result = [w \in Workers |-> "NONE"]
    /\ writes = [w \in Workers |-> <<>>]
    /\ before = [w \in Workers |-> [a \in Assets |-> NULL]]
    /\ prev = [w \in Workers |-> NoJob]
    /\ raisedAt = [w \in Workers |-> "none"]
    /\ initial = DuplicateIdOf

\* assets of two users; no duplicate group holds assets of both
InitOwner ==
    /\ enabled \in BOOLEAN
    /\ pageSize = 1
    /\ stream = <<>>
    /\ enumerated = <<>>
    /\ jobs = <<>>
    /\ submitted = <<>>
    /\ qpc = "idle"
    /\ qresult = "NONE"
    /\ \E d \in [Assets -> 0..MaxInitGroup], o \in [Assets -> OwnerIds] :
          /\ \A a, b \in Assets : (d[a] # NULL /\ d[a] = d[b]) => o[a] = o[b]
          /\ assets = [a \in Assets |-> [stackId |-> NULL, visibility |-> "timeline",
                                          embedding |-> TRUE, ownerId |-> o[a],
                                          duplicateId |-> d[a]]]
    /\ detectedAt = [a \in Assets |-> 0]
    /\ uuids = 0
    /\ runs = 0
    /\ changes = 0
    /\ pc = [w \in Workers |-> "idle"]
    /\ jobId = [w \in Workers |-> NULL]
    /\ asset = [w \in Workers |-> Undefined]
    /\ duplicateAssets = [w \in Workers |-> <<>>]
    /\ result = [w \in Workers |-> "NONE"]
    /\ writes = [w \in Workers |-> <<>>]
    /\ before = [w \in Workers |-> [a \in Assets |-> NULL]]
    /\ prev = [w \in Workers |-> NoJob]
    /\ raisedAt = [w \in Workers |-> "none"]
    /\ initial = DuplicateIdOf

\* candidate asset ids of a search result
CandidateIds(dups) == [i \in 1..Len(dups) |-> dups[i].assetId]

\* the job queue hands job `id` to runner w
Start(w, id) ==
    /\ pc[w] \in {"idle", "done"}
    /\ runs < MaxRuns
    /\ runs' = runs + 1
    /\ pc' = [pc EXCEPT ![w] = "getConfig"]
    /\ jobId' = [jobId EXCEPT ![w] = id]
    /\ asset' = [asset EXCEPT ![w] = Undefined]
    /\ duplicateAssets' = [duplicateAssets EXCEPT ![w] = <<>>]
    /\ result' = [result EXCEPT ![w] = "NONE"]
    /\ writes' = [writes EXCEPT ![w] = <<>>]
    /\ before' = [before EXCEPT ![w] = DuplicateIdOf]
    /\ prev' = [prev EXCEPT ![w] = [id |-> jobId[w], result |-> result[w],
                                    candidates |-> CandidateIds(duplicateAssets[w])]]
    /\ raisedAt' = [raisedAt EXCEPT ![w] = "none"]
    /\ UNCHANGED <<initial, enabled, assets, detectedAt, uuids, changes>>
    /\ UNCHANGED qvars

\* variant: the handler goes on to load the asset whatever the configuration says
GetConfigIgnoringFlag(w) ==
    /\ pc[w] = "getConfig"
    /\ pc' = [pc EXCEPT ![w] = "load"]
    /\ UNCHANGED <<initial, enabled, assets, detectedAt, uuids, runs, changes, jobId, asset,
                   duplicateAssets, result, writes, before, prev, raisedAt>>
    /\ UNCHANGED qvars

\* getConfig({ withCache: true }) and the feature check
GetConfig(w) ==
    /\ pc[w] = "getConfig"
    /\ IF enabled
       THEN /\ pc' = [pc EXCEPT ![w] = "load"]
            /\ result' = result
       ELSE /\ pc' = [pc EXCEPT ![w] = "done"]
            /\ result' = [result EXCEPT ![w] = "SKIPPED"]
    /\ UNCHANGED <<initial, enabled, assets, detectedAt, uuids, runs, changes, jobId, asset,
                   duplicateAssets, writes, before, prev, raisedAt>>
    /\ UNCHANGED qvars

\* getForSearchDuplicatesJob and the checks up to the search call
Load(w) ==
    /\ pc[w] = "load"
    /\ LET a == GetForSearchDuplicatesJob(jobId[w])
       IN  /\ asset' = [asset EXCEPT ![w] = a]
           /\ IF Eligibility(a) = "OK"
              THEN /\ pc' = [pc EXCEPT ![w] = "search"]
                   /\ result' = result
              ELSE /\ pc' = [pc EXCEPT ![w] = "done"]
                   /\ result' = [result EXCEPT ![w] = Eligibility(a)]
    /\ UNCHANGED <<initial, enabled, assets, detectedAt, uuids, runs, changes, jobId,
                   duplicateAssets, writes, before, prev, raisedAt>>
    /\ UNCHANGED qvars

\* variant: the search called with the ids of every user
SearchAnyOwner(w) ==
    /\ pc[w] = "search"
    /\ \E dups \in SearchResults(asset[w].id, OwnerIds) :
          /\ duplicateAssets' = [duplicateAssets EXCEPT ![w] = dups]
          /\ pc' = [pc EXCEPT ![w] = AfterSearch(asset[w], dups)]
    /\ UNCHANGED <<initial, enabled, assets, detectedAt, uuids, runs, changes, jobId, asset,
                   result, writes, before, prev, raisedAt>>
    /\ UNCHANGED qvars

\* duplicateRepository.search returns; the handler picks its branch
Search(w) ==
    /\ pc[w] = "search"
    /\ \E dups \in SearchResults(asset[w].id, {asset[w].ownerId}) :
          /\ duplicateAssets' = [duplicateAssets EXCEPT ![w] = dups]
          /\ pc' = [pc EXCEPT ![w] = AfterSearch(asset[w], dups)]
    /\ UNCHANGED <<initial, enabled, assets, detectedAt, uuids, runs, changes, jobId, asset,
                   result, writes, before, prev, raisedAt>>
    /\ UNCHANGED qvars

\* variant: the asset ids and the source groups written by two statements, the second raising
MergeInTwoStatements(w) ==
    /\ pc[w] = "merge"
    /\ LET targetId == TargetDuplicateId(asset[w], duplicateAssets[w], RandomUUID)
           assetIds == AssetIdsToUpdate(asset[w], duplicateAssets[w], targetId)
       IN  assets' = MergedAssets(targetId, assetIds, <<>>)
    /\ uuids' = IF NeedsUUID(asset[w], duplicateAssets[w]) THEN uuids + 1 ELSE uuids
    /\ pc' = [pc EXCEPT ![w] = "done"]
    /\ result' = [result EXCEPT ![w] = "ERROR"]
    /\ raisedAt' = [raisedAt EXCEPT ![w] = "merge"]
    /\ UNCHANGED <<initial, enabled, detectedAt, runs, changes, jobId, asset, duplicateAssets,
                   writes, before, prev>>
    /\ UNCHANGED qvars

\* updateDuplicates: the store executes the merge
Merge(w) ==
    /\ pc[w] = "merge"
    /\ LET targetId == TargetDuplicateId(asset[w], duplicateAssets[w], RandomUUID)
           assetIds == AssetIdsToUpdate(asset[w], duplicateAssets[w], targetId)
           sourceIds == SourceIds(asset[w], duplicateAssets[w])
       IN  /\ assets' = MergedAssets(targetId, assetIds, sourceIds)
           /\ writes' = [writes EXCEPT ![w] = Append(@, MergeCall(targetId, assetIds, sourceIds))]
    /\ uuids' = IF NeedsUUID(asset[w], duplicateAssets[w]) THEN uuids + 1 ELSE uuids
    /\ pc' = [pc EXCEPT ![w] = "stamp"]
    /\ UNCHANGED <<initial, enabled, detectedAt, runs, changes, jobId, asset, duplicateAssets,
                   result, before, prev, raisedAt>>
    /\ UNCHANGED qvars

\* the store executes `update({ id, duplicateId: null })`
Update(w) ==
    /\ pc[w] = "update"
    /\ assets' = ClearedAssets(asset[w].id)
    /\ writes' = [writes EXCEPT ![w] = Append(@, UpdateCall(asset[w].id))]
    /\ pc' = [pc EXCEPT ![w] = "stamp"]
    /\ UNCHANGED <<initial, enabled, detectedAt, uuids, runs, changes, jobId, asset, duplicateAssets,
                   result, before, prev, raisedAt>>
    /\ UNCHANGED qvars

\* variant: the timestamp write always made with `[asset.id]`
StampScannedOnly(w) == <<asset[w].id>>

\* the ids the handler passes to upsertJobStatus
AssetIdsToStamp(w) ==
    IF Len(duplicateAssets[w]) > 0
    THEN writes[w][Len(writes[w])].assetIds
    ELSE <<asset[w].id>>

\* upsertJobStatus and `return JobStatus.SUCCESS`
UpsertJobStatus(w) ==
    /\ pc[w] = "stamp"
    /\ detectedAt' = StampedAt(AssetIdsToStamp(w), runs)
    /\ writes' = [writes EXCEPT ![w] = Append(@, UpsertJobStatusCall(AssetIdsToStamp(w)))]
    /\ pc' = [pc EXCEPT ![w] = "done"]
    /\ result' = [result EXCEPT ![w] = "SUCCESS"]
    /\ UNCHANGED <<initial, enabled, assets, uuids, runs, changes, jobId, asset, duplicateAssets,
                   before, prev, raisedAt>>
    /\ UNCHANGED qvars

\* the awaited repository call raises: the handler propagates the error
Throw(w) ==
    /\ pc[w] \in {"load", "search", "merge", "update", "stamp"}
    /\ pc' = [pc EXCEPT ![w] = "done"]
    /\ result' = [result EXCEPT ![w] = "ERROR"]
    /\ raisedAt' = [raisedAt EXCEPT ![w] = pc[w]]
    /\ UNCHANGED <<initial, enabled, assets, detectedAt, uuids, runs, changes, jobId, asset,
                   duplicateAssets, writes, before, prev>>
    /\ UNCHANGED qvars

\* the job runner kills the job between two steps of the handler
Kill(w) ==
    /\ pc[w] \in {"getConfig", "load", "search", "merge", "update", "stamp"}
    /\ pc' = [pc EXCEPT ![w] = "done"]
    /\ result' = [result EXCEPT ![w] = "KILLED"]
    /\ raisedAt' = [raisedAt EXCEPT ![w] = pc[w]]
    /\ UNCHANGED <<initial, enabled, assets, detectedAt, uuids, runs, changes, jobId, asset,
                   duplicateAssets, writes, before, prev>>
    /\ UNCHANGED qvars

\* another service rewrites the stack, visibility or embedding of an asset
ChangeAsset(a, row) ==
    /\ changes < MaxAssetChanges
    /\ changes' = changes + 1
    /\ assets' = [assets EXCEPT ![a] = [stackId |-> row.stackId, visibility |-> row.visibility,
                                        embedding |-> row.embedding, ownerId |-> row.ownerId,
                                        duplicateId |-> assets[a].duplicateId]]
    /\ UNCHANGED <<initial, enabled, detectedAt, uuids, runs, pc, jobId, asset, duplicateAssets,
                   result, writes, before, prev, raisedAt>>
    /\ UNCHANGED qvars

Step(w) ==
    \/ \E id \in JobIds : Start(w, id)
    \/ GetConfig(w)
    \/ Load(w)
    \/ Search(w)
    \/ Merge(w)
    \/ Update(w)
    \/ UpsertJobStatus(w)
    \/ Throw(w)

Environment == \E a \in Assets, row \in Rows : ChangeAsset(a, row)

\* scan-one jobs executed one after another by one runner
Next == \E w \in SeqWorkers : Step(w)

Spec == Init /\ [][Next]_vars

\* the first job a runner takes
FirstStart(w) == pc[w] = "idle" /\ \E id \in JobIds : Start(w, id)

FirstStep(w) ==
    \/ FirstStart(w)
    \/ GetConfig(w)
    \/ Load(w)
    \/ Search(w)
    \/ Merge(w)
    \/ Update(w)
    \/ UpsertJobStatus(w)
    \/ Throw(w)

\* one scan-one job while other services change assets
NextEnv ==
    \/ \E w \in SeqWorkers : FirstStep(w)
    \/ Environment

SpecEnv == Init /\ [][NextEnv]_vars

\* two runners, each executing one scan-one job, their steps interleaved
NextConc == \E w \in Workers : FirstStep(w)

SpecConc == Init /\ [][NextConc]_vars

\* scan-one jobs executed one after another over the assets of two users
SpecOwner == InitOwner /\ [][Next]_vars

\* scan-one jobs executed one after another by one runner that may kill them
NextCrash == \E w \in SeqWorkers : Step(w) \/ Kill(w)

SpecCrash == Init /\ [][NextCrash]_vars

\* --------------------------------------------- handleQueueSearchDuplicates
\* the scan-one job item pushed for an asset
JobItem(id) == [name |-> "DuplicateDetection", id |-> id]

\* variant: the threshold test written with `>`
BatchFullStrict(js, k) == Len(js) > k

\* `jobs.length >= JOBS_ASSET_PAGINATION_SIZE`
BatchFull(js, k) == Len(js) >= k

\* variant: queueAll without the `jobs = []`
JobsKeptAfterQueueAll(js) == js

\* jobs after the closure queueAll has run: `jobs = []`
JobsAfterQueueAll(js) == <<>>

InitQueue ==
    /\ enabled \in BOOLEAN
    /\ pageSize \in 1..MaxPageSize
    /\ stream \in DistinctSeqs(StreamIds, MaxStream)
    /\ enumerated = <<>>
    /\ jobs = <<>>
    /\ submitted = <<>>
    /\ qpc = "config"
    /\ qresult = "NONE"
    /\ IdleStore

\* getConfig and the feature check
QueueGetConfig ==
    /\ qpc = "config"
    /\ IF enabled
       THEN /\ qpc' = "stream"
            /\ qresult' = qresult
       ELSE /\ qpc' = "done"
            /\ qresult' = "SKIPPED"
    /\ UNCHANGED <<initial, enabled, pageSize, stream, enumerated, jobs, submitted>>
    /\ UNCHANGED svars

\* one iteration of the for-await loop up to its await
QueueLoopPush ==
    /\ qpc = "stream"
    /\ stream # <<>>
    /\ LET pushed == Append(jobs, JobItem(Head(stream)))
       IN  /\ jobs' = pushed
           /\ qpc' = IF BatchFull(pushed, pageSize) THEN "flush" ELSE "stream"
    /\ enumerated' = Append(enumerated, Head(stream))
    /\ stream' = Tail(stream)
    /\ UNCHANGED <<initial, enabled, pageSize, submitted, qresult>>
    /\ UNCHANGED svars

\* `await queueAll()` inside the loop
QueueLoopFlush ==
    /\ qpc = "flush"
    /\ submitted' = Append(submitted, jobs)
    /\ jobs' = JobsAfterQueueAll(jobs)
    /\ qpc' = "stream"
    /\ UNCHANGED <<initial, enabled, pageSize, stream, enumerated, qresult>>
    /\ UNCHANGED svars

\* the stream is exhausted: the loop ends
QueueLoopEnd ==
    /\ qpc = "stream"
    /\ stream = <<>>
    /\ qpc' = "final"
    /\ UNCHANGED <<initial, enabled, pageSize, stream, enumerated, jobs, submitted, qresult>>
    /\ UNCHANGED svars

\* `await queueAll()` after the loop and `return JobStatus.SUCCESS`
QueueFinalFlush ==
    /\ qpc = "final"
    /\ submitted' = Append(submitted, jobs)
    /\ jobs' = JobsAfterQueueAll(jobs)
    /\ qpc' = "done"
    /\ qresult' = "SUCCESS"
    /\ UNCHANGED <<initial, enabled, pageSize, stream, enumerated>>
    /\ UNCHANGED svars

NextQueue ==
    \/ QueueGetConfig
    \/ QueueLoopPush
    \/ QueueLoopFlush
    \/ QueueLoopEnd
    \/ QueueFinalFlush

SpecQueue == InitQueue /\ [][NextQueue]_vars

\* the runtime resumes the handler after every await that returns
SpecQueueFair == SpecQueue /\ WF_vars(NextQueue)

\* ---- both handlers on the job runner: the scan-all job, then scan-one jobs
\* the asset source enumerates MaxStream assets; assets may already be in groups
InitPipeline ==
    /\ enabled \in BOOLEAN
    /\ pageSize \in 1..MaxPageSize
    /\ stream = [i \in 1..MaxStream |-> i]
    /\ enumerated = <<>>
    /\ jobs = <<>>
    /\ submitted = <<>>
    /\ qpc = "config"
    /\ qresult = "NONE"
    /\ \E d \in [Assets -> 0..MaxInitGroup] :
          assets = [a \in Assets |-> [stackId |-> NULL, visibility |-> "timeline",
                                      embedding |-> TRUE, ownerId |-> 1, duplicateId |-> d[a]]]
    /\ detectedAt = [a \in Assets |-> 0]
    /\ uuids = 0
    /\ runs = 0
    /\ changes = 0
    /\ pc = [w \in Workers |-> "idle"]
    /\ jobId = [w \in Workers |-> NULL]
    /\ asset = [w \in Workers |-> Undefined]
    /\ duplicateAssets = [w \in Workers |-> <<>>]
    /\ result = [w \in Workers |-> "NONE"]
    /\ writes = [w \in Workers |-> <<>>]
    /\ before = [w \in Workers |-> [a \in Assets |-> NULL]]
    /\ prev = [w \in Workers |-> NoJob]
    /\ raisedAt = [w \in Workers |-> "none"]
    /\ initial = DuplicateIdOf

NextPipeline ==
    \/ NextQueue
    \/ /\ qpc = "done"
       /\ \E w \in SeqWorkers : Step(w)

SpecPipeline == InitPipeline /\ [][NextPipeline]_vars

\* ================================================================ claims
\* the assets one execution for asset a with candidates cands puts in one group, from
\* duplicateIds d
Block(d, a, cands) ==
    {a} \cup Range(cands)
        \cup {x \in Assets : d[x] # NULL /\ d[x] \in {d[y] : y \in {a} \cup Range(cands)}}

\* x and y are in one group under duplicateIds d
Together(d, x, y) == d[x] # NULL /\ d[x] = d[y]

\* duplicateIds f partition the assets as one execution for asset a with candidates cands
\* partitions them from duplicateIds d
SamePartition(f, d, a, cands) ==
    IF cands = <<>>
    THEN /\ f[a] = NULL
         /\ \A x, y \in Assets \ {a} : Together(f, x, y) <=> Together(d, x, y)
    ELSE /\ \A x, y \in Block(d, a, cands) : Together(f, x, y)
         /\ \A x \in Block(d, a, cands), y \in Assets \ Block(d, a, cands) : ~Together(f, x, y)
         /\ \A x, y \in Assets \ Block(d, a, cands) : Together(f, x, y) <=> Together(d, x, y)

\* number of queueAll calls that carried at least one job
NonEmptyCalls == Cardinality({i \in 1..Len(submitted) : submitted[i] # <<>>})

\* C1 (as stated): a scan-all run that enumerated N assets with threshold K has made
\* exactly ceil(N/K) queueAll calls when it returns SUCCESS.
C1_CeilCalls ==
    qresult = "SUCCESS" => Len(submitted) = CeilDiv(Len(enumerated), pageSize)

\* C1 (amended): a scan-all run that enumerated N assets with threshold K has made exactly
\* floor(N/K) + 1 queueAll calls when it returns SUCCESS, of which exactly ceil(N/K) carried
\* at least one job; the last call is empty when N is 0 or a multiple of K.
C1_CallCount ==
    qresult = "SUCCESS" =>
        /\ stream = <<>>
        /\ Len(submitted) = (Len(enumerated) \div pageSize) + 1
        /\ NonEmptyCalls = CeilDiv(Len(enumerated), pageSize)

\* a finished run over a non-empty enumeration whose length is a multiple of the threshold
C1_Witness ==
    /\ qresult = "SUCCESS"
    /\ pageSize > 1
    /\ Len(enumerated) = 2 * pageSize
    /\ Len(submitted) = 3

\* C2: no submitted batch holds more than K jobs, what has been submitted and what is pending
\* is always one job per asset received, in order, and at SUCCESS the submitted batches
\* together hold exactly one scan-one job per enumerated asset.
C2_ExactlyOnce ==
    /\ \A i \in 1..Len(submitted) : Len(submitted[i]) <= pageSize
    /\ qpc # "config" =>
          Flatten(submitted) \o jobs = [i \in 1..Len(enumerated) |-> JobItem(enumerated[i])]
    /\ qresult = "SUCCESS" =>
          /\ stream = <<>>
          /\ Flatten(submitted) = [i \in 1..Len(enumerated) |-> JobItem(enumerated[i])]

\* a finished run that submitted a full batch and then a remainder
C2_Witness ==
    /\ qresult = "SUCCESS"
    /\ Len(enumerated) >= 3
    /\ Len(submitted) >= 2
    /\ Len(submitted[1]) = pageSize
    /\ submitted[Len(submitted)] # <<>>
    /\ Len(submitted[Len(submitted)]) < pageSize

\* the loaded asset is in a stack, hidden or locked
Excluded(a) == a.stackId # NULL \/ a.visibility \in {"hidden", "locked"}

\* the execution of runner w has written nothing: no call issued, no duplicateId and no
\* scan timestamp differs from what it was when the job started
NoMutation(w) ==
    /\ writes[w] = <<>>
    /\ DuplicateIdOf = before[w]
    /\ detectedAt = [a \in Assets |-> 0]

\* C3 (as stated): a finished scan-one of an existing asset without embedding returned
\* FAILED and wrote nothing, whatever its stack membership or visibility.
C3_AlwaysFailed ==
    \A w \in SeqWorkers :
        (pc[w] = "done" /\ asset[w].id # NULL /\ ~asset[w].embedding) =>
            (result[w] = "FAILED" /\ NoMutation(w))

\* C3 (amended): a finished scan-one of an existing asset without embedding wrote nothing;
\* it returned FAILED when the asset is neither stacked, hidden nor locked, and SKIPPED
\* when it is (those checks come first).
C3_MissingEmbedding ==
    \A w \in SeqWorkers :
        (pc[w] = "done" /\ asset[w].id # NULL /\ ~asset[w].embedding) =>
            /\ NoMutation(w)
            /\ duplicateAssets[w] = <<>>
            /\ result[w] = IF Excluded(asset[w]) THEN "SKIPPED" ELSE "FAILED"

\* a scan-one of a visible, unstacked asset without embedding, member of a group, has failed
C3_Witness ==
    \E w \in SeqWorkers :
        /\ pc[w] = "done"
        /\ result[w] = "FAILED"
        /\ asset[w].id # NULL
        /\ ~asset[w].embedding
        /\ ~Excluded(asset[w])
        /\ asset[w].duplicateId # NULL

\* C4: a finished scan-one of an existing asset that is stacked, hidden or locked returned
\* SKIPPED without searching and wrote nothing, with or without an embedding.
C4_ExcludedSkipped ==
    \A w \in SeqWorkers :
        (pc[w] = "done" /\ asset[w].id # NULL /\ Excluded(asset[w])) =>
            /\ result[w] = "SKIPPED"
            /\ duplicateAssets[w] = <<>>
            /\ NoMutation(w)

\* a scan-one of a locked asset with an embedding, sharing a group with another asset,
\* has been skipped
C4_Witness ==
    \E w \in SeqWorkers :
        /\ pc[w] = "done"
        /\ result[w] = "SKIPPED"
        /\ asset[w].id # NULL
        /\ asset[w].visibility = "locked"
        /\ asset[w].stackId = NULL
        /\ asset[w].embedding
        /\ \E c \in Assets : c # asset[w].id /\ assets[c].duplicateId = asset[w].duplicateId
                                /\ asset[w].duplicateId # NULL

\* ---- scan-one, jobs executed one after another
\* runner w has finished a job
Finished(w) == pc[w] = "done"

\* runner w has searched and got candidates
Merged(w) ==
    /\ pc[w] \in {"stamp", "done"}
    /\ Len(duplicateAssets[w]) > 0
    /\ raisedAt[w] # "merge"

\* the second of two successful executions for the same asset with the same candidate ids
SecondRun(w) ==
    /\ Finished(w)
    /\ result[w] = "SUCCESS"
    /\ prev[w].result = "SUCCESS"
    /\ prev[w].id = jobId[w]
    /\ prev[w].candidates = CandidateIds(duplicateAssets[w])

\* C5 (as stated): the second run leaves every duplicateId as the first run left it and
\* issues no store write.
C5_NoSecondWrite ==
    \A w \in SeqWorkers :
        SecondRun(w) => (DuplicateIdOf = before[w] /\ writes[w] = <<>>)

\* C5 (amended): the second run leaves every duplicateId as the first run left it; it does
\* write again: with candidates, a merge whose target is the asset's group, whose asset ids
\* are the scanned asset alone and whose source ids are that same group, then the timestamp
\* write for the scanned asset; without candidates, the timestamp write only.
C5_Idempotent ==
    \A w \in SeqWorkers :
        SecondRun(w) =>
            /\ DuplicateIdOf = before[w]
            /\ writes[w] =
                 IF duplicateAssets[w] # <<>>
                 THEN <<MergeCall(asset[w].duplicateId, <<jobId[w]>>, <<asset[w].duplicateId>>),
                        UpsertJobStatusCall(<<jobId[w]>>)>>
                 ELSE <<UpsertJobStatusCall(<<jobId[w]>>)>>

\* a second run with two candidates after a first run that created the group
C5_Witness ==
    \E w \in SeqWorkers :
        /\ SecondRun(w)
        /\ Len(duplicateAssets[w]) = 2
        /\ uuids = 1
        /\ asset[w].duplicateId = MaxInitGroup + 1

\* C6: when the loaded asset has duplicateId G and the search returned candidates, the merge
\* has target G, the scanned asset is in G after it, and every asset that was in G is
\* still in G.
C6_GroupIdStable ==
    \A w \in SeqWorkers :
        (Merged(w) /\ asset[w].duplicateId # NULL) =>
            /\ Len(writes[w]) >= 1
            /\ writes[w][1].op = "merge"
            /\ writes[w][1].targetId = asset[w].duplicateId
            /\ assets[jobId[w]].duplicateId = asset[w].duplicateId
            /\ \A a \in Assets :
                  before[w][a] = asset[w].duplicateId =>
                      assets[a].duplicateId = asset[w].duplicateId

\* a merge for an asset of group G that shares G with another asset, with a candidate of
\* another group
C6_Witness ==
    \E w \in SeqWorkers :
        /\ Merged(w)
        /\ asset[w].duplicateId # NULL
        /\ \E i \in 1..Len(duplicateAssets[w]) :
              duplicateAssets[w][i].duplicateId \notin {NULL, asset[w].duplicateId}
        /\ \E a \in Assets : a # jobId[w] /\ before[w][a] = asset[w].duplicateId

\* index of the first candidate, in search order, that has a duplicateId
FirstGrouped(dups) ==
    CHOOSE i \in 1..Len(dups) :
        /\ dups[i].duplicateId # NULL
        /\ \A j \in 1..(i - 1) : dups[j].duplicateId = NULL

\* group ids the candidates reference
ReferencedGroups(dups) == {dups[i].duplicateId : i \in 1..Len(dups)} \ {NULL}

\* C7: when the loaded asset has no duplicateId and the candidates reference two or more
\* groups, the merge target is the group of the first candidate that has one, and after the
\* merge every asset that was in a referenced group is in the target.
C7_Absorption ==
    \A w \in SeqWorkers :
        (/\ Merged(w)
         /\ asset[w].duplicateId = NULL
         /\ Cardinality(ReferencedGroups(duplicateAssets[w])) >= 2) =>
            LET dups == duplicateAssets[w]
                target == dups[FirstGrouped(dups)].duplicateId
            IN  /\ Len(writes[w]) >= 1
                /\ writes[w][1].op = "merge"
                /\ writes[w][1].targetId = target
                /\ \A a \in Assets :
                      before[w][a] \in ReferencedGroups(dups) =>
                          assets[a].duplicateId = target
                /\ assets[jobId[w]].duplicateId = target

\* a merge for an asset without group whose candidates reference two groups, the first
\* candidate in search order having none or the larger id
C7_Witness ==
    \E w \in SeqWorkers :
        /\ Merged(w)
        /\ asset[w].duplicateId = NULL
        /\ Cardinality(ReferencedGroups(duplicateAssets[w])) = 2
        /\ duplicateAssets[w][1].duplicateId = 2
        /\ assets[jobId[w]].duplicateId = 2

\* C8: after a successful scan-one whose search returned nothing, an asset that had
\* duplicateId G has none, every other asset has the duplicateId it had, and the writes
\* are the clear and the timestamp write, no merge; an asset that had none caused the
\* timestamp write only.
C8_Detach ==
    \A w \in SeqWorkers :
        (Finished(w) /\ result[w] = "SUCCESS" /\ duplicateAssets[w] = <<>>) =>
            IF before[w][jobId[w]] # NULL
            THEN /\ assets[jobId[w]].duplicateId = NULL
                 /\ \A a \in Assets \ {jobId[w]} : assets[a].duplicateId = before[w][a]
                 /\ writes[w] = <<UpdateCall(jobId[w]), UpsertJobStatusCall(<<jobId[w]>>)>>
            ELSE /\ DuplicateIdOf = before[w]
                 /\ writes[w] = <<UpsertJobStatusCall(<<jobId[w]>>)>>

\* an asset detached from a group that keeps another member
C8_Witness ==
    \E w \in SeqWorkers :
        /\ Finished(w)
        /\ result[w] = "SUCCESS"
        /\ duplicateAssets[w] = <<>>
        /\ before[w][jobId[w]] # NULL
        /\ assets[jobId[w]].duplicateId = NULL
        /\ \E a \in Assets \ {jobId[w]} : assets[a].duplicateId = before[w][jobId[w]]

\* C9 (as stated): an execution that ended without SUCCESS, whatever call raised, left
\* every duplicateId as it was when the job started.
C9_FailureKeepsAll ==
    \A w \in SeqWorkers :
        (Finished(w) /\ result[w] # "SUCCESS") => DuplicateIdOf = before[w]

\* C9 (amended): an execution that returned SKIPPED or FAILED, or in which the load, the
\* search, the merge or the clear raised, left every duplicateId as it was when the job
\* started and issued no write; one in which the timestamp write raised keeps the merge or
\* clear it had already committed.
C9_FailureBeforeWrite ==
    \A w \in SeqWorkers :
        (Finished(w) /\ result[w] # "SUCCESS") =>
            IF result[w] = "ERROR" /\ raisedAt[w] = "stamp"
            THEN /\ Len(writes[w]) <= 1
                 /\ \A i \in 1..Len(writes[w]) : writes[w][i].op \in {"merge", "update"}
                 /\ writes[w] = <<>> => DuplicateIdOf = before[w]
            ELSE /\ DuplicateIdOf = before[w]
                 /\ writes[w] = <<>>

\* a merge call that raised for an asset whose candidates are in another group
C9_Witness ==
    \E w \in SeqWorkers :
        /\ Finished(w)
        /\ result[w] = "ERROR"
        /\ raisedAt[w] = "merge"
        /\ asset[w].duplicateId # NULL
        /\ \E i \in 1..Len(duplicateAssets[w]) :
              duplicateAssets[w][i].duplicateId \notin {NULL, asset[w].duplicateId}

\* ---- scan-one, two jobs interleaved
\* C10: with the jobs in flight scanning different assets, no merge separates two assets
\* that are in one duplicate group when it executes.
C10_NoSplit ==
    [][\A w \in Workers :
          (/\ pc[w] = "merge"
           /\ pc'[w] = "stamp"
           /\ \A v \in Workers \ {w} : jobId[v] # jobId[w]) =>
              \A a, b \in Assets :
                  (assets[a].duplicateId # NULL /\ assets[a].duplicateId = assets[b].duplicateId)
                      => assets'[a].duplicateId = assets'[b].duplicateId]_vars

\* C11: when two jobs for the same asset, interleaved, have both succeeded with the same
\* candidate ids, the assets are partitioned as one execution from the initial state
\* partitions them: with candidates, the asset, its candidates and the members of their
\* groups form one group and the rest is as it was; without, the asset has no group and
\* the rest is as it was.
C11_DuplicateDelivery ==
    (/\ \A w \in Workers : Finished(w) /\ result[w] = "SUCCESS"
     /\ \A v, w \in Workers :
           /\ jobId[v] = jobId[w]
           /\ CandidateIds(duplicateAssets[v]) = CandidateIds(duplicateAssets[w])) =>
        LET w0 == CHOOSE w \in Workers : TRUE
        IN  SamePartition(DuplicateIdOf,
                          initial, jobId[w0], CandidateIds(duplicateAssets[w0]))

\* two jobs for one asset have succeeded, the second having loaded the asset before the
\* first merged and searched after it, the candidate being in another group than the asset
C11_Witness ==
    /\ \A w \in Workers : Finished(w) /\ result[w] = "SUCCESS"
    /\ jobId["w1"] = jobId["w2"]
    /\ CandidateIds(duplicateAssets["w1"]) = CandidateIds(duplicateAssets["w2"])
    /\ Len(duplicateAssets["w1"]) = 1
    /\ duplicateAssets["w1"] # duplicateAssets["w2"]
    /\ asset["w1"] = asset["w2"]
    /\ \E a \in Assets : a # jobId["w1"] /\ initial[a] # NULL /\ initial[a] = initial[jobId["w1"]]

\* ---- scan-one while other services change assets
\* asset a holds a duplicateId it did not have before the first job: a merge wrote it
PipelineAssigned(a) ==
    assets[a].duplicateId # NULL /\ assets[a].duplicateId # initial[a]

\* C12: no asset that is stacked, hidden or locked holds a duplicateId a merge of this
\* pipeline gave it.
C12_ExcludedHoldNoGroup ==
    \A a \in Assets : Excluded(assets[a]) => ~PipelineAssigned(a)

\* ---- scan-one over the assets of two users
\* C13: assets that share a duplicateId have the same owner.
C13_SingleOwner ==
    \A a, b \in Assets :
        Together(DuplicateIdOf, a, b) => assets[a].ownerId = assets[b].ownerId

\* a merge into the group of a candidate while an asset of the other user is in a group
C13_Witness ==
    \E w \in SeqWorkers :
        /\ Merged(w)
        /\ writes[w] # <<>>
        /\ asset[w].duplicateId = NULL
        /\ \E i \in 1..Len(duplicateAssets[w]) : duplicateAssets[w][i].duplicateId # NULL
        /\ \E a \in Assets :
              /\ assets[a].ownerId # asset[w].ownerId
              /\ assets[a].duplicateId # NULL

\* ---- both handlers while duplicate detection is disabled
\* C14: while the feature is disabled, scan-all returns SKIPPED having enumerated and
\* submitted nothing, and scan-one returns SKIPPED for every id, having loaded no asset,
\* run no search and written neither a duplicateId nor a scan timestamp.
C14_DisabledFrame ==
    ~enabled =>
        /\ qpc \in {"config", "done"}
        /\ qpc = "done" => qresult = "SKIPPED"
        /\ enumerated = <<>>
        /\ jobs = <<>>
        /\ submitted = <<>>
        /\ DuplicateIdOf = initial
        /\ detectedAt = [a \in Assets |-> 0]
        /\ \A w \in SeqWorkers :
              /\ pc[w] \in {"idle", "getConfig", "done"}
              /\ pc[w] = "done" => result[w] = "SKIPPED"
              /\ asset[w] = Undefined
              /\ duplicateAssets[w] = <<>>
              /\ writes[w] = <<>>

\* disabled: scan-all has returned with assets left to enumerate, a scan-one of an existing
\* grouped asset has returned, and a scan-one of an id that designates no asset has returned
C14_Witness ==
    /\ ~enabled
    /\ qpc = "done"
    /\ stream # <<>>
    /\ \E w \in SeqWorkers :
          /\ Finished(w)
          /\ jobId[w] = MissingId
          /\ prev[w].id \in Assets
          /\ prev[w].result = "SKIPPED"
          /\ initial[prev[w].id] # NULL

\* ---- the arguments of the merge
\* C15: in every merge call, sourceIds holds each non-null group id of the candidates other
\* than the target exactly once, and never the target.
C15_SourceIdsExcludeTarget ==
    \A w \in SeqWorkers :
        \A i \in 1..Len(writes[w]) :
            writes[w][i].op = "merge" =>
                /\ Injective(writes[w][i].sourceIds)
                /\ Range(writes[w][i].sourceIds)
                       = ReferencedGroups(duplicateAssets[w]) \ {writes[w][i].targetId}

\* ---- the state after a merge
\* C16: after a scan-one that found candidates, the scanned asset, every candidate and every
\* asset that was in a group of the asset or of a candidate have the target as duplicateId;
\* no asset is left in a referenced group other than the target; and when neither the asset
\* nor any candidate had a group, the target is an id no asset had before.
C16_MergePostcondition ==
    \A w \in SeqWorkers :
        (Merged(w) /\ Len(writes[w]) >= 1) =>
            LET dups == duplicateAssets[w]
                target == writes[w][1].targetId
                refs == ReferencedGroups(dups) \cup ({before[w][jobId[w]]} \ {NULL})
            IN  /\ writes[w][1].op = "merge"
                /\ target # NULL
                /\ assets[jobId[w]].duplicateId = target
                /\ \A i \in 1..Len(dups) : assets[dups[i].assetId].duplicateId = target
                /\ \A a \in Assets : before[w][a] \in refs => assets[a].duplicateId = target
                /\ \A a \in Assets : assets[a].duplicateId \notin (refs \ {target})
                /\ refs = {} =>
                      \A a \in Assets : target \notin {before[w][a], initial[a]}

\* a merge that emptied a candidate's group into the asset's group, and, in the same
\* history, a merge under a new id
C16_Witness ==
    \E w \in SeqWorkers :
        /\ Merged(w)
        /\ Len(writes[w]) >= 1
        /\ before[w][jobId[w]] # NULL
        /\ \E a \in Assets : before[w][a] \notin {NULL, before[w][jobId[w]]}
                               /\ assets[a].duplicateId = before[w][jobId[w]]
        /\ uuids = 1

\* ---- the scan-timestamp write
\* the calls of runner w that write the scan timestamp
StampCalls(w) == SelectSeq(writes[w], LAMBDA c : c.op = "upsertJobStatus")

\* C17: an execution that returned SUCCESS made exactly one timestamp write, as its last
\* call, after the merge or the clear; it covers the scanned asset and the asset ids passed
\* to the merge, or the scanned asset alone when there was no candidate. An execution that
\* returned anything else made none.
C17_OneStampAfterMembership ==
    \A w \in SeqWorkers :
        Finished(w) =>
            IF result[w] = "SUCCESS"
            THEN /\ Len(StampCalls(w)) = 1
                 /\ writes[w][Len(writes[w])].op = "upsertJobStatus"
                 /\ \A i \in 1..(Len(writes[w]) - 1) : writes[w][i].op \in {"merge", "update"}
                 /\ jobId[w] \in Range(writes[w][Len(writes[w])].assetIds)
                 /\ IF duplicateAssets[w] # <<>>
                    THEN /\ Len(writes[w]) = 2
                         /\ writes[w][1].op = "merge"
                         /\ writes[w][2].assetIds = writes[w][1].assetIds
                    ELSE writes[w][Len(writes[w])].assetIds = <<jobId[w]>>
                 /\ \A a \in Range(writes[w][Len(writes[w])].assetIds) : detectedAt[a] = runs
            ELSE StampCalls(w) = <<>>

\* a successful execution whose merge moved the asset and a candidate, after an execution
\* that returned FAILED
C17_Witness ==
    \E w \in SeqWorkers :
        /\ Finished(w)
        /\ result[w] = "SUCCESS"
        /\ Len(writes[w]) = 2
        /\ Len(writes[w][1].assetIds) = 2
        /\ prev[w].result = "FAILED"

\* ---- a killed job delivered again
\* what one uninterrupted scan-one of asset a that finds candidates cands leaves, from the
\* duplicateIds the assets had at first: every asset's duplicateId
Uninterrupted(a, cands) ==
    IF cands = <<>>
    THEN [initial EXCEPT ![a] = NULL]
    ELSE LET row == [id |-> a, duplicateId |-> initial[a]]
             dups == [i \in 1..Len(cands) |->
                         [assetId |-> cands[i], duplicateId |-> initial[cands[i]]]]
             target == TargetDuplicateId(row, dups, MaxInitGroup + 1)
             ids == AssetIdsToUpdate(row, dups, target)
             sources == SourceIds(row, dups)
         IN  [x \in Assets |->
                 IF x \in Range(ids) \/ (initial[x] # NULL /\ initial[x] \in Range(sources))
                 THEN target
                 ELSE initial[x]]

\* the first delivery of a job was killed and the second delivery, for the same asset, has
\* returned SUCCESS; the search gave the same candidates both times, or the first delivery
\* was killed before it wrote
Redelivered(w) ==
    /\ runs = 2
    /\ Finished(w)
    /\ result[w] = "SUCCESS"
    /\ prev[w].result = "KILLED"
    /\ prev[w].id = jobId[w]
    /\ \/ prev[w].candidates = CandidateIds(duplicateAssets[w])
       \/ before[w] = initial

\* C18: when a job is killed before its merge, or after its merge and before the timestamp
\* write, and is delivered again and completes, every asset has the duplicateId one
\* uninterrupted execution would have given it.
C18_RedeliveryConverges ==
    \A w \in SeqWorkers :
        Redelivered(w) =>
            DuplicateIdOf = Uninterrupted(jobId[w], CandidateIds(duplicateAssets[w]))

\* the first delivery was killed after a merge that created a group, while another asset is
\* in a group of its own
C18_Witness ==
    \E w \in SeqWorkers :
        /\ Redelivered(w)
        /\ before[w] # initial
        /\ uuids = 1
        /\ Len(duplicateAssets[w]) = 1
        /\ \E a \in Assets : initial[a] # NULL

\* ---- the clear, two jobs interleaved
\* C19: with the jobs in flight scanning different assets, the clear of the branch without
\* candidates does not erase a duplicateId other than the one the job loaded: an asset that
\* another job's merge has moved to another group since the load stays there.
C19_ClearSparesNewerGroup ==
    [][\A w \in Workers :
          (/\ pc[w] = "update"
           /\ pc'[w] = "stamp"
           /\ \A v \in Workers \ {w} : jobId[v] # jobId[w]
           /\ assets[jobId[w]].duplicateId # asset[w].duplicateId) =>
              assets'[jobId[w]].duplicateId = assets[jobId[w]].duplicateId]_vars

\* ---- scan-all, every await returning
\* C20: when the feature is enabled, the handler eventually returns SUCCESS, and its
\* pending batch is empty when it does.
C20_ReturnsWithEmptyBatch ==
    (enabled /\ qpc = "config") ~> (qpc = "done" /\ qresult = "SUCCESS" /\ jobs = <<>>)

\* the handler has returned SUCCESS after a submission inside the loop and a last one that
\* took the assets left over
C20_Witness ==
    /\ qpc = "done"
    /\ qresult = "SUCCESS"
    /\ Len(submitted) >= 2
    /\ submitted[Len(submitted)] # <<>>
    /\ Len(enumerated) = MaxStream

====
